---- MODULE Spec2Model ----
(***************************************************************************)
(* Topic & Skill service (src/app.py): a Flask application with CRUD       *)
(* handlers for two tables, topics and skills.  The handlers validate the  *)
(* JSON body of a request, look rows up by primary key and perform at most *)
(* one write.                                                              *)
(*                                                                         *)
(* JSON values and column values are tagged records: NullV is null/None,   *)
(* Str(s) a string (a sequence of one-character strings) and Num(n) a      *)
(* number.  A JSON body is a function from the keys it contains to values, *)
(* so that a missing key and a key holding null are different bodies.      *)
(***************************************************************************)
EXTENDS Integers, Sequences, FiniteSets, TLC

\* ------------------------------------------------------------------ bounds
MaxLen == 2        \* longest string a request body carries
MaxTopics == 2     \* ids the topics table hands out
MaxSkills == 1     \* ids the skills table hands out
NumWorkers == 2    \* requests served at the same time (SpecConc only)

VARIABLES
  topics,       \* table topics: id -> [name, description, parent_topic_id]
  skills,       \* table skills: id -> [name, topic_id, difficulty]
  nextTopicId,  \* next id the topics table generates
  nextSkillId,  \* next id the skills table generates
  phase,        \* "idle" | "pending" (request received) | "done" (handler returned)
  request,      \* the request being served: [op, id, body]
  response,     \* what the handler returned: [status, error, id]
  sessions      \* SpecConc: per worker, the request and the ORM session's pending write

vars == <<topics, skills, nextTopicId, nextSkillId, phase, request, response, sessions>>
store == <<topics, skills, nextTopicId, nextSkillId>>

\* ------------------------------------------------------------------ values
NullV == [t |-> "null"]
Str(s) == [t |-> "str", v |-> s]
Num(n) == [t |-> "int", v |-> n]
None == [t |-> "none"]      \* Python None for "no row", "no request"

Chars == {" ", "a"}
Strings == UNION {[1..n -> Chars] : n \in 0..MaxLen}
Unknown == Str(<<"u", "n", "k", "n", "o", "w", "n">>)

\* Python truth value of a JSON value: None, "" and 0 are falsy.
Truthy(v) ==
  CASE v.t = "null" -> FALSE
    [] v.t = "str" -> v.v # <<>>
    [] v.t = "int" -> v.v # 0

\* a or b
PyOr(a, b) == IF Truthy(a) THEN a ELSE b

\* payload.get(key)
Get(payload, key) == IF key \in DOMAIN payload THEN payload[key] ELSE NullV

\* payload.get(key, default)
GetDefault_or(payload, key, default) == PyOr(Get(payload, key), default)
GetDefault(payload, key, default) ==
  IF key \in DOMAIN payload THEN payload[key] ELSE default

\* str.strip() on the characters of a string
RECURSIVE lstrip(_)
lstrip(s) == IF s # <<>> /\ Head(s) = " " THEN lstrip(Tail(s)) ELSE s
RECURSIVE rstrip(_)
rstrip(s) ==
  IF s # <<>> /\ s[Len(s)] = " " THEN rstrip(SubSeq(s, 1, Len(s) - 1)) ELSE s
strip(v) == Str(rstrip(lstrip(v.v)))

\* ------------------------------------------------------------------ store
\* Topic.query.get(v), Skill.query.get(v): the row with that primary key.
Topic_query_get(v) ==
  IF v.t = "int" /\ v.v \in DOMAIN topics THEN topics[v.v] ELSE None
Skill_query_get(v) ==
  IF v.t = "int" /\ v.v \in DOMAIN skills THEN skills[v.v] ELSE None

\* exists().where(Skill.topic_id == id), exists().where(Topic.parent_topic_id == id)
has_skills_never(id) == FALSE
has_skills(id) == \E s \in DOMAIN skills : skills[s].topic_id = Num(id)
has_topics_never(id) == FALSE
has_topics(id) == \E t \in DOMAIN topics : topics[t].parent_topic_id = Num(id)

\* A function with one more / one changed / one fewer row.
Put(table, id, row) ==
  [i \in DOMAIN table \cup {id} |-> IF i = id THEN row ELSE table[i]]
Drop_keeps(table, id) == table
Drop(table, id) == [i \in DOMAIN table \ {id} |-> table[i]]

\* What a handler decides: the response and the single write of its session.
NoWrite == [kind |-> "none"]
Reply(status, error, write) == [status |-> status, error |-> error, write |-> write]
Error(status, error) == Reply(status, error, NoWrite)

\* db.session.commit(): the tables after the session's write.  A new row gets
\* the next generated id; an UPDATE or DELETE of a row that is no longer there
\* matches nothing.
Commit(w) ==
  LET same == [topics |-> topics, skills |-> skills,
               nextTopicId |-> nextTopicId, nextSkillId |-> nextSkillId, id |-> 0]
  IN CASE w.kind = "none" -> same
       [] w.kind = "add_topic" ->
            [same EXCEPT !.topics = Put(topics, nextTopicId, w.row),
                         !.nextTopicId = nextTopicId + 1, !.id = nextTopicId]
       [] w.kind = "update_topic" ->
            IF w.id \in DOMAIN topics
            THEN [same EXCEPT !.topics = Put(topics, w.id, w.row), !.id = w.id]
            ELSE same
       [] w.kind = "delete_topic" ->
            [same EXCEPT !.topics = Drop(topics, w.id), !.id = w.id]
       [] w.kind = "add_skill" ->
            [same EXCEPT !.skills = Put(skills, nextSkillId, w.row),
                         !.nextSkillId = nextSkillId + 1, !.id = nextSkillId]
       [] w.kind = "update_skill" ->
            IF w.id \in DOMAIN skills
            THEN [same EXCEPT !.skills = Put(skills, w.id, w.row), !.id = w.id]
            ELSE same
       [] w.kind = "delete_skill" ->
            [same EXCEPT !.skills = Drop(skills, w.id), !.id = w.id]

\* ------------------------------------------------------------------ handlers
\* Each handler as the code runs it on the current tables: its checks in the
\* code's order, the first failing one answering, and the write it commits.

get_topic_by_id_run(id) ==
  LET topic == Topic_query_get(Num(id))
  IN IF topic = None THEN Error(404, "Topic not found") ELSE Reply(200, "", NoWrite)

create_topic_run(payload) ==
  LET name == strip(PyOr(Get(payload, "name"), Str(<<>>)))
      description == Get(payload, "description")
      parent_id == Get(payload, "parentTopicID")
  IN IF ~Truthy(name) THEN Error(422, "Field 'name' is required.")
     ELSE IF Truthy(parent_id) /\ Topic_query_get(parent_id) = None
     THEN Error(422, "parentTopicID not found")
     ELSE Reply(201, "",
                [kind |-> "add_topic",
                 row |-> [name |-> name, description |-> description,
                          parent_topic_id |-> parent_id]])

update_topic_run(id, payload) ==
  LET topic == Topic_query_get(Num(id))
      name == strip(PyOr(Get(payload, "name"), topic.name))
      description == GetDefault(payload, "description", topic.description)
      parent_id == GetDefault(payload, "parentTopicID", topic.parent_topic_id)
  IN IF topic = None THEN Error(404, "Topic not found")
     ELSE IF Truthy(parent_id) /\ Topic_query_get(parent_id) = None
     THEN Error(422, "parentTopicID not found")
     ELSE Reply(200, "",
                [kind |-> "update_topic", id |-> id,
                 row |-> [name |-> name, description |-> description,
                          parent_topic_id |-> parent_id]])

delete_topic_run(id) ==
  LET topic == Topic_query_get(Num(id))
  IN IF topic = None THEN Error(404, "Topic not found")
     ELSE IF has_skills(id)
     THEN Error(409, "The topic has dependent skills, cannot delete the topic")
     ELSE IF has_topics(id)
     THEN Error(409, "The topic has dependent topics, cannot delete the topic")
     ELSE Reply(204, "", [kind |-> "delete_topic", id |-> id])

create_skill_run_unchecked(payload) ==
  LET name == strip(PyOr(Get(payload, "name"), Str(<<>>)))
      topic_id == Get(payload, "topicID")
      difficulty == strip(PyOr(Get(payload, "difficulty"), Unknown))
  IN IF ~Truthy(name) THEN Error(422, "Field 'name' is required.")
     ELSE IF ~Truthy(topic_id) THEN Error(422, "Field 'topicID' is required.")
     ELSE Reply(201, "",
                [kind |-> "add_skill",
                 row |-> [name |-> name, topic_id |-> topic_id,
                          difficulty |-> difficulty]])

create_skill_run(payload) ==
  LET name == strip(PyOr(Get(payload, "name"), Str(<<>>)))
      topic_id == Get(payload, "topicID")
      difficulty == strip(PyOr(Get(payload, "difficulty"), Unknown))
  IN IF ~Truthy(name) THEN Error(422, "Field 'name' is required.")
     ELSE IF ~Truthy(topic_id) THEN Error(422, "Field 'topicID' is required.")
     ELSE IF Topic_query_get(topic_id) = None THEN Error(422, "topicID not found")
     ELSE Reply(201, "",
                [kind |-> "add_skill",
                 row |-> [name |-> name, topic_id |-> topic_id,
                          difficulty |-> difficulty]])

update_skill_run(id, payload) ==
  LET skill == Skill_query_get(Num(id))
      name == strip(PyOr(Get(payload, "name"), skill.name))
      topic_id == GetDefault(payload, "topicID", skill.topic_id)
      difficulty == strip(PyOr(Get(payload, "difficulty"), skill.difficulty))
  IN IF skill = None THEN Error(404, "Skill not found")
     ELSE IF Topic_query_get(topic_id) = None THEN Error(422, "topicID not found")
     ELSE Reply(200, "",
                [kind |-> "update_skill", id |-> id,
                 row |-> [name |-> name, topic_id |-> topic_id,
                          difficulty |-> difficulty]])

delete_skill_run(id) ==
  LET skill == Skill_query_get(Num(id))
  IN IF skill = None THEN Error(404, "Skill not found")
     ELSE Reply(204, "", [kind |-> "delete_skill", id |-> id])

\* ------------------------------------------------------------------ requests
TopicIds == 1..MaxTopics
SkillIds == 1..MaxSkills

\* The JSON bodies: every subset of the keys, every value of each key.
Bodies(fields) ==
  UNION {{b \in [K -> UNION {fields[k] : k \in K}] : \A k \in K : b[k] \in fields[k]}
         : K \in SUBSET DOMAIN fields}
NameValues == {NullV} \cup {Str(s) : s \in Strings}
RefValues == {NullV} \cup {Num(n) : n \in 0..MaxTopics}
\* description is copied into the row and never inspected: bodies carry it as
\* null or not at all.
TopicBodies ==
  Bodies([name |-> NameValues, description |-> {NullV}, parentTopicID |-> RefValues])
SkillBodies ==
  Bodies([name |-> NameValues, topicID |-> RefValues, difficulty |-> NameValues])

Requests ==
  {[op |-> "get_topic_by_id", id |-> i, body |-> <<>>] : i \in TopicIds}
  \cup {[op |-> "create_topic", id |-> 0, body |-> b] : b \in TopicBodies}
  \cup {[op |-> "update_topic", id |-> i, body |-> b] : i \in TopicIds, b \in TopicBodies}
  \cup {[op |-> "delete_topic", id |-> i, body |-> <<>>] : i \in TopicIds}
  \cup {[op |-> "create_skill", id |-> 0, body |-> b] : b \in SkillBodies}
  \cup {[op |-> "update_skill", id |-> i, body |-> b] : i \in SkillIds, b \in SkillBodies}
  \cup {[op |-> "delete_skill", id |-> i, body |-> <<>>] : i \in SkillIds}

\* The tables hand out MaxTopics and MaxSkills ids; a create request arrives
\* only while an id is left.
Admissible(r) ==
  /\ r.op = "create_topic" => nextTopicId <= MaxTopics
  /\ r.op = "create_skill" => nextSkillId <= MaxSkills

\* ------------------------------------------------------------------ sequential service
Init ==
  /\ topics = <<>>
  /\ skills = <<>>
  /\ nextTopicId = 1
  /\ nextSkillId = 1
  /\ phase = "idle"
  /\ request = None
  /\ response = None
  /\ sessions = [w \in 1..NumWorkers |-> None]

\* A request arrives.
Receive ==
  /\ phase = "idle"
  /\ \E r \in Requests : Admissible(r) /\ request' = r
  /\ phase' = "pending"
  /\ response' = None
  /\ UNCHANGED <<store, sessions>>

\* The handler runs from its first line to its return: checks, write, commit.
Serve(op, reply) ==
  /\ phase = "pending"
  /\ request.op = op
  /\ LET after == Commit(reply.write)
     IN /\ topics' = after.topics
        /\ skills' = after.skills
        /\ nextTopicId' = after.nextTopicId
        /\ nextSkillId' = after.nextSkillId
        /\ response' = [status |-> reply.status, error |-> reply.error, id |-> after.id]
  /\ phase' = "done"
  /\ UNCHANGED <<request, sessions>>

get_topic_by_id == Serve("get_topic_by_id", get_topic_by_id_run(request.id))
create_topic == Serve("create_topic", create_topic_run(request.body))
update_topic == Serve("update_topic", update_topic_run(request.id, request.body))
delete_topic == Serve("delete_topic", delete_topic_run(request.id))
create_skill == Serve("create_skill", create_skill_run(request.body))
update_skill == Serve("update_skill", update_skill_run(request.id, request.body))
delete_skill == Serve("delete_skill", delete_skill_run(request.id))

\* The response is sent and the request context is torn down.
Respond ==
  /\ phase = "done"
  /\ phase' = "idle"
  /\ request' = None
  /\ response' = None
  /\ UNCHANGED <<store, sessions>>

Next ==
  \/ Receive
  \/ get_topic_by_id
  \/ create_topic
  \/ update_topic
  \/ delete_topic
  \/ create_skill
  \/ update_skill
  \/ delete_skill
  \/ Respond

Spec == Init /\ [][Next]_vars

\* ------------------------------------------------------------------ concurrent service
\* Several workers serve requests at once against the same database.  A handler
\* runs its queries, decides, and commits its write later; between the two,
\* other workers' handlers run.  No handler takes a lock, and the tables carry
\* no constraint, so a commit applies the write as decided.

\* Flask's routing: the handler of a request.
Run(r) ==
  CASE r.op = "get_topic_by_id" -> get_topic_by_id_run(r.id)
    [] r.op = "create_topic" -> create_topic_run(r.body)
    [] r.op = "update_topic" -> update_topic_run(r.id, r.body)
    [] r.op = "delete_topic" -> delete_topic_run(r.id)
    [] r.op = "create_skill" -> create_skill_run(r.body)
    [] r.op = "update_skill" -> update_skill_run(r.id, r.body)
    [] r.op = "delete_skill" -> delete_skill_run(r.id)

\* The requests of the concurrent service: names are fixed, references range
\* over the topic ids.
ConcName == {Str(<<"a">>)}
ConcRefs == {Num(n) : n \in TopicIds}
ConcTopicBodies == Bodies([name |-> ConcName, parentTopicID |-> ConcRefs])
ConcSkillBodies == Bodies([name |-> ConcName, topicID |-> ConcRefs])
ConcRequests ==
  {[op |-> "create_topic", id |-> 0, body |-> b] : b \in ConcTopicBodies}
  \cup {[op |-> "update_topic", id |-> i, body |-> b] : i \in TopicIds, b \in ConcTopicBodies}
  \cup {[op |-> "delete_topic", id |-> i, body |-> <<>>] : i \in TopicIds}
  \cup {[op |-> "create_skill", id |-> 0, body |-> b] : b \in ConcSkillBodies}
  \cup {[op |-> "update_skill", id |-> i, body |-> b] : i \in SkillIds, b \in ConcSkillBodies}
  \cup {[op |-> "delete_skill", id |-> i, body |-> <<>>] : i \in SkillIds}

Workers == 1..NumWorkers
Adding(kind) ==
  Cardinality({w \in Workers : sessions[w] # None /\ sessions[w].write.kind = kind})

\* Worker w receives a request and its handler runs up to the commit.
Check(w) ==
  /\ sessions[w] = None
  /\ \E r \in ConcRequests :
       /\ r.op = "create_topic" => nextTopicId + Adding("add_topic") <= MaxTopics
       /\ r.op = "create_skill" => nextSkillId + Adding("add_skill") <= MaxSkills
       /\ sessions' = [sessions EXCEPT ![w] = [op |-> r.op, write |-> Run(r).write]]
  /\ UNCHANGED <<store, phase, request, response>>

\* Worker w's handler commits and returns.
Flush(w) ==
  /\ sessions[w] # None
  /\ LET after == Commit(sessions[w].write)
     IN /\ topics' = after.topics
        /\ skills' = after.skills
        /\ nextTopicId' = after.nextTopicId
        /\ nextSkillId' = after.nextSkillId
  /\ sessions' = [sessions EXCEPT ![w] = None]
  /\ UNCHANGED <<phase, request, response>>

NextConc ==
  \/ \E w \in Workers : Check(w)
  \/ \E w \in Workers : Flush(w)

SpecConc == Init /\ [][NextConc]_vars

\* ------------------------------------------------------------------ properties
\* A step in which the handler of op runs.
Handles(op) == phase = "pending" /\ request.op = op /\ phase' = "done"

SkillsOf(t) == {s \in DOMAIN skills : skills[s].topic_id = Num(t)}
ChildrenOf(t) == {c \in DOMAIN topics : topics[c].parent_topic_id = Num(t)}
\* Ids the topics table handed out whose row is gone.
DeletedTopics == (1..(nextTopicId - 1)) \ DOMAIN topics
Blank(v) == v.t = "str" /\ \A i \in 1..Len(v.v) : v.v[i] = " "
\* The rows in which two states of a table differ.
Changed(old, new) ==
  {i \in DOMAIN old \cup DOMAIN new :
     ~(i \in DOMAIN old /\ i \in DOMAIN new /\ old[i] = new[i])}

\* C1: DELETE /topics/{id} on an existing Topic that a Skill references as
\* topicID or a Topic references as parentTopicID answers 409 and leaves every
\* Topic row and every Skill row as it was.
C1_DeleteBlocked ==
  [][(Handles("delete_topic") /\ request.id \in DOMAIN topics
        /\ (SkillsOf(request.id) # {} \/ ChildrenOf(request.id) # {}))
     => (response'.status = 409 /\ topics' = topics /\ skills' = skills)]_vars

C1_Witness ==
  /\ phase = "done" /\ request.op = "delete_topic" /\ response.status = 409
  /\ request.id \in DOMAIN topics
  /\ SkillsOf(request.id) = {}
  /\ ChildrenOf(request.id) # {}

\* C2: in every state of the sequential service, every stored Skill's topicID
\* is the id of a Topic that exists.
C2_SkillTopicExists ==
  \A s \in DOMAIN skills : \E t \in DOMAIN topics : skills[s].topic_id = Num(t)

C2_Witness ==
  /\ phase = "done" /\ request.op = "delete_topic" /\ response.status = 409
  /\ SkillsOf(request.id) # {}
  /\ Cardinality(DOMAIN topics) = 2

\* C3: in every state of the sequential service, every stored Topic whose
\* parentTopicID is not null references a Topic that exists.
C3_ParentExists ==
  \A c \in DOMAIN topics :
    topics[c].parent_topic_id # NullV
      => \E t \in DOMAIN topics : topics[c].parent_topic_id = Num(t)

\* C4: a request answered 404, 409 or 422 leaves both tables as they were; POST
\* /topics with a parentTopicID that names no existing Topic answers 422 and
\* stores no row; a request that changes the tables changes exactly one row.
C4_ErrorsWriteNothing ==
  [][(phase = "pending" /\ phase' = "done")
     => /\ response'.status \in {404, 409, 422} => (topics' = topics /\ skills' = skills)
        /\ (/\ request.op = "create_topic"
            /\ "parentTopicID" \in DOMAIN request.body
            /\ request.body["parentTopicID"].t = "int"
            /\ request.body["parentTopicID"].v \notin DOMAIN topics)
           => (response'.status = 422 /\ topics' = topics)
        /\ Cardinality(Changed(topics, topics')) + Cardinality(Changed(skills, skills')) <= 1]_vars

\* C5: DELETE /topics/{id} on an existing Topic that no Skill and no Topic
\* references answers 204 and removes the row; an id whose row is gone stays
\* gone, and GET /topics/{id} for it answers 404.
C5_DeleteThenGet ==
  [][/\ (Handles("delete_topic") /\ request.id \in DOMAIN topics
           /\ SkillsOf(request.id) = {} /\ ChildrenOf(request.id) = {})
        => (response'.status = 204 /\ request.id \notin DOMAIN topics')
     /\ \A t \in DeletedTopics : t \notin DOMAIN topics'
     /\ (Handles("get_topic_by_id") /\ request.id \in DeletedTopics)
        => response'.status = 404]_vars

C5_Witness ==
  /\ phase = "done" /\ request.op = "get_topic_by_id" /\ response.status = 404
  /\ request.id \in DeletedTopics

\* C6: POST /skills that succeeds stores difficulty "unknown" when the body's
\* difficulty is missing, null, empty or whitespace-only, and the supplied
\* difficulty trimmed otherwise.
C6_DifficultyDefault ==
  [][(Handles("create_skill") /\ response'.status = 201)
     => skills'[response'.id].difficulty =
          IF \/ "difficulty" \notin DOMAIN request.body
             \/ request.body["difficulty"] = NullV
             \/ Blank(request.body["difficulty"])
          THEN Unknown
          ELSE strip(request.body["difficulty"])]_vars

\* C7 as stated: PUT /skills/{id} on an existing Skill whose body omits topicID
\* or carries it as null is validated against the Skill's stored topicID and,
\* on success, leaves the stored topicID unchanged.
C7_NullOrAbsentFallsBack ==
  [][(Handles("update_skill") /\ request.id \in DOMAIN skills
        /\ ("topicID" \notin DOMAIN request.body \/ request.body["topicID"] = NullV))
     => /\ response'.status =
             IF \E t \in DOMAIN topics : skills[request.id].topic_id = Num(t)
             THEN 200 ELSE 422
        /\ response'.status = 200
             => skills'[request.id].topic_id = skills[request.id].topic_id]_vars

\* C7 amended: a body that omits topicID is validated against the Skill's
\* stored topicID and, on success, leaves it unchanged; a body that carries
\* topicID as null is answered 422 "topicID not found" and changes nothing.
C7_AbsentFallsBackNullRejected ==
  [][(Handles("update_skill") /\ request.id \in DOMAIN skills)
     => /\ "topicID" \notin DOMAIN request.body
           => /\ response'.status =
                   IF \E t \in DOMAIN topics : skills[request.id].topic_id = Num(t)
                   THEN 200 ELSE 422
              /\ response'.status = 200
                   => skills'[request.id].topic_id = skills[request.id].topic_id
        /\ ("topicID" \in DOMAIN request.body /\ request.body["topicID"] = NullV)
           => /\ response'.status = 422
              /\ response'.error = "topicID not found"
              /\ skills' = skills /\ topics' = topics]_vars

C7_Witness ==
  /\ phase = "done" /\ request.op = "update_skill" /\ request.id \in DOMAIN skills
  /\ "topicID" \in DOMAIN request.body /\ request.body["topicID"] = NullV
  /\ response.status = 422
  /\ \E t \in DOMAIN topics : skills[request.id].topic_id = Num(t)

\* C8: under any interleaving of concurrent requests, no Topic is absent while
\* a Skill or a Topic still references it.
C8_NoReferenceToDeleted ==
  \A t \in DeletedTopics : SkillsOf(t) = {} /\ ChildrenOf(t) = {}

\* C9: in every state of the sequential service, every stored Topic and every
\* stored Skill has a non-empty name.
C9_NamesNonEmpty ==
  /\ \A t \in DOMAIN topics : topics[t].name # Str(<<>>)
  /\ \A s \in DOMAIN skills : skills[s].name # Str(<<>>)

\* C10: in the sequential service, PUT /skills/{id} on an existing Skill with a
\* body that has no topicID key answers 200, never 422, and leaves the stored
\* topicID as it was.
C10_UpdateWithoutTopicSucceeds ==
  [][(Handles("update_skill") /\ request.id \in DOMAIN skills
        /\ "topicID" \notin DOMAIN request.body)
     => /\ response'.status = 200
        /\ skills'[request.id].topic_id = skills[request.id].topic_id]_vars

C10_Witness ==
  /\ phase = "done" /\ request.op = "update_skill" /\ response.status = 200
  /\ "topicID" \notin DOMAIN request.body
  /\ "name" \in DOMAIN request.body
  /\ Cardinality(DOMAIN topics) = 2

====
